---- MODULE Spec2Model ----
(***************************************************************************)
(* Model of core/idp.go: the IDP facade (Connect, Close, key cache with    *)
(* eviction-triggered refresh, consent-challenge verification).            *)
(*                                                                         *)
(* Time is counted in ticks; one second is TicksPerSec ticks, so that the  *)
(* second-granular check of the JWT library (time.Now().Unix()) and the    *)
(* nanosecond-granular checks of time.Time.Before and of the cache differ  *)
(* the way they differ in the program.                                     *)
(***************************************************************************)
EXTENDS Integers, Sequences, FiniteSets, TLC

VARIABLES
  config,    \* the IDPConfig given to NewIDP
  client,    \* idp.client: NoClient (nil) or a transport
  keyCache,  \* idp.keyCache: role -> <<>> or <<item>>
  now,       \* the clock, in ticks
  evicted,   \* janitor: evicted items whose callback has not returned yet
  jpc,       \* janitor: "idle" or "fetching" (inside getKey's GET)
  jclient,   \* janitor: the transport the GET in flight was issued under
  jfetches,  \* janitor: GETs issued by the callback now running
  conn,      \* the Connect call in progress: its position and its locals
  closing,   \* a Close call has cleared idp.client and has not flushed yet
  nc,        \* the NewChallenge call in progress: its position and its locals
  crashed,   \* the process died of an unrecovered panic
  last       \* the operation that acted last, with its inputs and results

vars == <<config, client, keyCache, now, evicted, jpc, jclient, jfetches, conn, closing,
          nc, crashed, last>>

(* ------------------------------ bounds -------------------------------- *)
TicksPerSec == 2
MaxTicks == 2
MaxKey == 2
MaxExp == 2
TTL == 1

(* ----------------------------- constants ------------------------------ *)
VerifyPublicKey == "VerifyPublic"
ConsentPrivateKey == "ConsentPrivate"
Roles == {VerifyPublicKey, ConsentPrivateKey}

KeyIds == 1..MaxKey
NoClient == 0

ErrorNoKey == "ErrorNoKey"
ErrorBadKey == "ErrorBadKey"
ErrorBadRequest == "ErrorBadRequest"
ErrorChallengeExpired == "ErrorChallengeExpired"
ErrorBadChallengeCookie == "ErrorBadChallengeCookie"
Nil == "nil"
Panic == "panic"

(* ------------------------ configuration (IDPConfig) -------------------- *)
\* KeyCacheExpiration: 0 (entries never expire) or TTL ticks.
\* KeyCacheCleanupInterval: 0 (no janitor goroutine) or 1 (janitor runs).
IDPConfig == [KeyCacheExpiration : {0, TTL}, KeyCacheCleanupInterval : {0, 1}]

(* --------------------------- the key cache ----------------------------- *)
\* cache.New(defaultExpiration, cleanupInterval): an empty item map.
\* An absent item is <<>>, a present one <<[Object, Expiration]>>.
CacheNew == [k \in Roles |-> <<>>]

\* cache.Set(k, x, cache.DefaultExpiration) at time t with default expiration d:
\* the item expires at t + d when d > 0 and never otherwise (Expiration 0).
CacheSet(c, k, x, t, d) ==
  [c EXCEPT ![k] = <<[Object |-> x, Expiration |-> IF d > 0 THEN t + d ELSE 0]>>]

\* Item.Expired at time t.
Expired(c, k, t) ==
  /\ c[k] # <<>>
  /\ c[k][1].Expiration > 0
  /\ t > c[k][1].Expiration

\* cache.Get(k) at time t: <<>> when not found, <<Object>> when found.
CacheGet(c, k, t) ==
  IF c[k] = <<>> \/ Expired(c, k, t) THEN <<>> ELSE <<c[k][1].Object>>

\* cache.Flush(): every item dropped, the eviction callback is not called.
CacheFlush(c) == [k \in Roles |-> <<>>]

(* ------------------------------ keys ----------------------------------- *)
PublicKey(i) == [type |-> "rsa.PublicKey", id |-> i]
PrivateKey(i) == [type |-> "rsa.PrivateKey", id |-> i]

\* A JWK as published by the server: key type and key-pair identity.
JWKs == [kty : {"RSA"}, id : KeyIds] \cup [kty : {"EC", "bad"}, id : {1}]

\* What the key-publishing endpoint may answer to one GET.
Responses ==
  {[t |-> "transportErr", keys |-> <<>>], [t |-> "badBody", keys |-> <<>>],
   [t |-> "keys", keys |-> <<>>]}
  \cup {[t |-> "keys", keys |-> <<j>>] : j \in JWKs}
  \cup {[t |-> "keys", keys |-> <<[kty |-> "RSA", id |-> MaxKey], [kty |-> "RSA", id |-> 1]>>]}

\* IDP.getKey: GET under idp.client, read, unmarshal, first key of the set.
\* A nil client and an empty key set both panic (nil dereference, index 0).
getKey(cl, resp) ==
  IF cl = NoClient THEN [err |-> Panic, jwk |-> <<>>]
  ELSE IF resp.t = "transportErr" THEN [err |-> "transport error", jwk |-> <<>>]
  ELSE IF resp.t = "badBody" THEN [err |-> "decode error", jwk |-> <<>>]
  ELSE IF Len(resp.keys) = 0 THEN [err |-> Panic, jwk |-> <<>>]
  ELSE [err |-> Nil, jwk |-> <<resp.keys[1]>>]

\* getVerificationKey handing on whatever DecodePublicKey produced, with no
\* assertion that it is an RSA public key.
getVerificationKey_AnyKeyType(cl, resp) ==
  LET r == getKey(cl, resp) IN
  IF r.err # Nil THEN [err |-> r.err, key |-> <<>>]
  ELSE IF r.jwk[1].kty = "bad" THEN [err |-> "decode error", key |-> <<>>]
  ELSE IF r.jwk[1].kty # "RSA"
    THEN [err |-> Nil, key |-> <<[type |-> "ecdsa.PublicKey", id |-> r.jwk[1].id]>>]
  ELSE [err |-> Nil, key |-> <<PublicKey(r.jwk[1].id)>>]

\* IDP.getVerificationKey: DecodePublicKey may fail; a decoded key that is
\* not an *rsa.PublicKey panics in the type assertion.
getVerificationKey(cl, resp) ==
  LET r == getKey(cl, resp) IN
  IF r.err # Nil THEN [err |-> r.err, key |-> <<>>]
  ELSE IF r.jwk[1].kty = "bad" THEN [err |-> "decode error", key |-> <<>>]
  ELSE IF r.jwk[1].kty # "RSA" THEN [err |-> Panic, key |-> <<>>]
  ELSE [err |-> Nil, key |-> <<PublicKey(r.jwk[1].id)>>]

\* IDP.getConsentKey: DecodePrivateKey may fail; a decoded key that is not an
\* *rsa.PrivateKey panics in the type assertion.
getConsentKey(cl, resp) ==
  LET r == getKey(cl, resp) IN
  IF r.err # Nil THEN [err |-> r.err, key |-> <<>>]
  ELSE IF r.jwk[1].kty = "bad" THEN [err |-> "decode error", key |-> <<>>]
  ELSE IF r.jwk[1].kty # "RSA" THEN [err |-> Panic, key |-> <<>>]
  ELSE [err |-> Nil, key |-> <<PrivateKey(r.jwk[1].id)>>]

\* GetVerificationKey reading the stored item whether or not it has expired.
GetVerificationKey_IgnoreExpiry(c, t) ==
  IF c[VerifyPublicKey] = <<>> THEN [err |-> ErrorNoKey, key |-> <<>>]
  ELSE IF c[VerifyPublicKey][1].Object.type # "rsa.PublicKey"
    THEN [err |-> ErrorBadKey, key |-> <<>>]
  ELSE [err |-> Nil, key |-> <<c[VerifyPublicKey][1].Object>>]

\* IDP.GetVerificationKey at time t
GetVerificationKey(c, t) ==
  LET data == CacheGet(c, VerifyPublicKey, t) IN
  IF data = <<>> THEN [err |-> ErrorNoKey, key |-> <<>>]
  ELSE IF data[1].type # "rsa.PublicKey" THEN [err |-> ErrorBadKey, key |-> <<>>]
  ELSE [err |-> Nil, key |-> data]

\* IDP.GetConsentKey at time t
GetConsentKey(c, t) ==
  LET data == CacheGet(c, ConsentPrivateKey, t) IN
  IF data = <<>> THEN [err |-> ErrorNoKey, key |-> <<>>]
  ELSE IF data[1].type # "rsa.PrivateKey" THEN [err |-> ErrorBadKey, key |-> <<>>]
  ELSE [err |-> Nil, key |-> data]

(* ------------------------- login and Connect --------------------------- *)
\* A fresh authenticated transport, distinct from the one held.
NewClient(cl) == IF cl = 1 THEN 2 ELSE 1

\* login with idp.client assigned before the token is prefetched.
login_AssignFirst(cl, tokenOk) ==
  [err |-> IF tokenOk THEN Nil ELSE "oauth2 error", client |-> NewClient(cl)]

\* IDP.login: the token is prefetched first; idp.client is assigned only
\* when that succeeded.
login(cl, tokenOk) ==
  IF ~tokenOk THEN [err |-> "oauth2 error", client |-> cl]
  ELSE [err |-> Nil, client |-> NewClient(cl)]

\* The locals of a Connect call: where it stands, the client its GET in
\* flight was issued under, and the keys it has fetched so far.
ConnIdle == [pc |-> "idle", client |-> NoClient, keys |-> <<>>]

\* Connect, idp.go:167 -> 84: getVerificationKey reaches idp.client.Get, which
\* reads idp.client; a nil client panics, otherwise the GET is in flight.
ConnectIssueVerify(cl) ==
  IF getKey(cl, [t |-> "transportErr", keys |-> <<>>]).err = Panic
    THEN [err |-> Panic, conn |-> ConnIdle]
    ELSE [err |-> Nil, conn |-> [pc |-> "verifyGet", client |-> cl, keys |-> <<>>]]

\* Connect, idp.go:167-172 -> 84: the first GET has answered resp; on an error
\* Connect returns it, otherwise getConsentKey reaches idp.client.Get, which
\* reads idp.client again.
ConnectIssueConsent(cn, cl, resp) ==
  LET v == getVerificationKey(cn.client, resp) IN
  IF v.err # Nil THEN [err |-> v.err, conn |-> ConnIdle, steps |-> 2]
  ELSE IF getKey(cl, [t |-> "transportErr", keys |-> <<>>]).err = Panic
    THEN [err |-> Panic, conn |-> ConnIdle, steps |-> 3]
  ELSE [err |-> Nil, conn |-> [pc |-> "consentGet", client |-> cl, keys |-> v.key],
        steps |-> 3]

\* The second GET answered: the verification key is stored although the
\* consent key could not be fetched.
ConnectStoreVerify_SetEarly(cn, c, t, d, resp) ==
  LET k == getConsentKey(cn.client, resp) IN
  IF k.err = Panic THEN [err |-> k.err, conn |-> ConnIdle, keyCache |-> c]
  ELSE IF k.err # Nil
    THEN [err |-> k.err, conn |-> ConnIdle,
          keyCache |-> CacheSet(c, VerifyPublicKey, cn.keys[1], t, d)]
  ELSE [err |-> Nil, conn |-> [pc |-> "setConsent", client |-> NoClient,
                               keys |-> cn.keys \o k.key],
        keyCache |-> CacheSet(c, VerifyPublicKey, cn.keys[1], t, d)]

\* Connect, idp.go:172-177: the second GET has answered resp; on an error
\* Connect returns it with nothing stored, otherwise the verification key is
\* stored at time t.
ConnectStoreVerify(cn, c, t, d, resp) ==
  LET k == getConsentKey(cn.client, resp) IN
  IF k.err # Nil THEN [err |-> k.err, conn |-> ConnIdle, keyCache |-> c]
  ELSE [err |-> Nil, conn |-> [pc |-> "setConsent", client |-> NoClient,
                               keys |-> cn.keys \o k.key],
        keyCache |-> CacheSet(c, VerifyPublicKey, cn.keys[1], t, d)]

\* Connect returning after the first Set, the consent key not stored.
ConnectStoreConsent_Skip(cn, c, t, d) == c

\* Connect, idp.go:178: the consent key is stored at time t.
ConnectStoreConsent(cn, c, t, d) == CacheSet(c, ConsentPrivateKey, cn.keys[2], t, d)

\* The statements of Connect in the order it runs them.
ConnectSteps ==
  <<"login", "getVerificationKey", "getConsentKey", "Set VerifyPublic", "Set ConsentPrivate">>

\* No NewChallenge call in progress.
NcIdle == [pc |-> "idle", form |-> <<>>, user |-> "", key |-> <<>>, steps |-> <<>>]

(* ------------------------------ state ---------------------------------- *)
\* The clock starts on a whole second and the model follows it for MaxTicks.
StartTime == TicksPerSec
MaxTime == StartTime + MaxTicks

NoOp == [op |-> "NewIDP", err |-> Nil, arg |-> <<>>, ret |-> <<>>, steps |-> <<>>]

\* NewIDP: no client, an empty cache, the eviction callback registered.
Init ==
  /\ config \in IDPConfig
  /\ client = NoClient
  /\ keyCache = CacheNew
  /\ now = StartTime
  /\ evicted = <<>>
  /\ jpc = "idle"
  /\ jclient = NoClient
  /\ jfetches = 0
  /\ conn = ConnIdle
  /\ closing = FALSE
  /\ nc = NcIdle
  /\ crashed = FALSE
  /\ last = NoOp

\* The clock advances.
Tick ==
  /\ ~crashed
  /\ now < MaxTime
  /\ now' = now + 1
  /\ last' = [op |-> "Tick", err |-> Nil, arg |-> <<>>, ret |-> <<>>, steps |-> <<>>]
  /\ UNCHANGED <<config, client, keyCache, evicted, jpc, jclient, jfetches, conn,
               closing, crashed, nc>>

\* Connect is called and credentials.Token answers: on an error Connect
\* returns it, otherwise login assigns idp.client.
ConnectLogin ==
  /\ ~crashed
  /\ conn.pc = "idle"
  /\ \E tokenOk \in BOOLEAN :
       LET l == login(client, tokenOk) IN
       /\ client' = l.client
       /\ conn' = IF l.err = Nil THEN [ConnIdle EXCEPT !.pc = "loggedIn"] ELSE ConnIdle
       /\ last' = [op |-> IF l.err = Nil THEN "Connect:login" ELSE "Connect",
                   err |-> l.err, arg |-> <<>>, ret |-> <<>>,
                   steps |-> SubSeq(ConnectSteps, 1, 1)]
  /\ UNCHANGED <<config, keyCache, now, evicted, jpc, jclient, jfetches, closing, crashed, nc>>

\* A panic in Connect unwinds into its caller, which may recover from it or
\* not.
ConnectGetVerificationKey ==
  /\ ~crashed
  /\ conn.pc = "loggedIn"
  /\ LET res == ConnectIssueVerify(client) IN
     /\ conn' = res.conn
     /\ IF res.err = Panic THEN crashed' \in BOOLEAN ELSE crashed' = FALSE
     /\ last' = [op |-> IF res.err = Nil THEN "Connect:GET" ELSE "Connect",
                 err |-> res.err, arg |-> <<>>, ret |-> <<>>,
                 steps |-> SubSeq(ConnectSteps, 1, 2)]
  /\ UNCHANGED <<config, client, keyCache, now, evicted, jpc, jclient, jfetches, closing, nc>>

ConnectGetConsentKey ==
  /\ ~crashed
  /\ conn.pc = "verifyGet"
  /\ \E resp \in Responses :
       LET res == ConnectIssueConsent(conn, client, resp) IN
       /\ conn' = res.conn
       /\ IF res.err = Panic THEN crashed' \in BOOLEAN ELSE crashed' = FALSE
       /\ last' = [op |-> IF res.err = Nil THEN "Connect:GET" ELSE "Connect",
                   err |-> res.err, arg |-> <<>>, ret |-> <<>>,
                   steps |-> SubSeq(ConnectSteps, 1, res.steps)]
  /\ UNCHANGED <<config, client, keyCache, now, evicted, jpc, jclient, jfetches, closing, nc>>

ConnectSetVerifyPublic ==
  /\ ~crashed
  /\ conn.pc = "consentGet"
  /\ \E resp \in Responses :
       LET res == ConnectStoreVerify(conn, keyCache, now, config.KeyCacheExpiration, resp)
       IN
       /\ conn' = res.conn
       /\ keyCache' = res.keyCache
       /\ IF res.err = Panic THEN crashed' \in BOOLEAN ELSE crashed' = FALSE
       /\ last' = [op |-> IF res.err = Nil THEN "Connect:SetVerify" ELSE "Connect",
                   err |-> res.err, arg |-> <<>>,
                   ret |-> IF res.err = Nil THEN <<res.conn.keys[1]>> ELSE <<>>,
                   steps |-> SubSeq(ConnectSteps, 1, IF res.err = Nil THEN 4 ELSE 3)]
  /\ UNCHANGED <<config, client, now, evicted, jpc, jclient, jfetches, closing, nc>>

ConnectSetConsentPrivate ==
  /\ ~crashed
  /\ conn.pc = "setConsent"
  /\ keyCache' = ConnectStoreConsent(conn, keyCache, now, config.KeyCacheExpiration)
  /\ conn' = [conn EXCEPT !.pc = "return"]
  /\ last' = [op |-> "Connect:SetConsent", err |-> Nil, arg |-> <<>>,
              ret |-> <<conn.keys[2]>>, steps |-> ConnectSteps]
  /\ UNCHANGED <<config, client, now, evicted, jpc, jclient, jfetches, closing, crashed, nc>>

\* Connect returns nil to its caller (idp.go:180).
ConnectReturn ==
  /\ ~crashed
  /\ conn.pc = "return"
  /\ conn' = ConnIdle
  /\ last' = [op |-> "Connect", err |-> Nil, arg |-> <<>>, ret |-> conn.keys,
              steps |-> ConnectSteps]
  /\ UNCHANGED <<config, client, keyCache, now, evicted, jpc, jclient, jfetches, closing,
               crashed, nc>>

\* IDP.Connect, one call at a time, statement by statement.
Connect ==
  \/ ConnectLogin
  \/ ConnectGetVerificationKey
  \/ ConnectGetConsentKey
  \/ ConnectSetVerifyPublic
  \/ ConnectSetConsentPrivate
  \/ ConnectReturn

\* IDP.Close: the client is set to nil (idp.go:294), then the cache is
\* flushed (idp.go:297); Flush hands no item to the eviction callback.
CloseResult(cl, c) ==
  [client |-> NoClient, keyCache |-> CacheFlush(c), evictedItems |-> <<>>]

\* Close is called and sets idp.client to nil.
CloseClient ==
  /\ ~crashed
  /\ ~closing
  /\ closing' = TRUE
  /\ client' = CloseResult(client, keyCache).client
  /\ last' = [op |-> "Close:client", err |-> Nil, arg |-> <<>>, ret |-> <<>>,
              steps |-> <<"client">>]
  /\ UNCHANGED <<config, keyCache, now, evicted, jpc, jclient, jfetches, conn, crashed, nc>>

\* Close flushes the cache and returns.
CloseFlush ==
  /\ ~crashed
  /\ closing
  /\ closing' = FALSE
  /\ keyCache' = CloseResult(client, keyCache).keyCache
  /\ evicted' = evicted \o CloseResult(client, keyCache).evictedItems
  /\ last' = [op |-> "Close", err |-> Nil, arg |-> <<>>, ret |-> <<>>,
              steps |-> <<"client", "Flush">>]
  /\ UNCHANGED <<config, client, now, jpc, jclient, jfetches, conn, crashed, nc>>

\* IDP.Close, one call at a time.
Close == CloseClient \/ CloseFlush

(* ----------------- the janitor and the eviction callback ---------------- *)
\* DeleteExpired handing the expired items to the callback while leaving them
\* readable in the map.
DeleteExpiredResult_ServeStale(c, t) ==
  [keyCache |-> [k \in Roles |-> IF Expired(c, k, t)
                                   THEN <<[Object |-> c[k][1].Object, Expiration |-> 0]>>
                                   ELSE c[k]],
   evictedItems |-> {[key |-> k, value |-> c[k][1].Object] :
                       k \in {r \in Roles : Expired(c, r, t)}}]

\* cache.DeleteExpired at time t: the expired items are deleted under the lock
\* and handed to the callback afterwards.
DeleteExpiredResult(c, t) ==
  [keyCache |-> [k \in Roles |-> IF Expired(c, k, t) THEN <<>> ELSE c[k]],
   evictedItems |-> {[key |-> k, value |-> c[k][1].Object] :
                       k \in {r \in Roles : Expired(c, r, t)}}]

\* The orders a range over a Go map may visit the set S in.
Orders(S) == {q \in UNION {[1..n -> S] : n \in {Cardinality(S)}} :
               \A i, j \in DOMAIN q : i # j => q[i] # q[j]}

\* The janitor's sweep; it runs only when the cleanup interval is positive.
DeleteExpired ==
  /\ ~crashed
  /\ config.KeyCacheCleanupInterval > 0
  /\ jpc = "idle" /\ evicted = <<>>
  /\ LET res == DeleteExpiredResult(keyCache, now) IN
     /\ res.evictedItems # {}
     /\ keyCache' = res.keyCache
     /\ \E q \in Orders(res.evictedItems) :
          /\ evicted' = q
          /\ last' = [op |-> "DeleteExpired", err |-> Nil, arg |-> <<>>, ret |-> q,
                      steps |-> <<>>]
  /\ UNCHANGED <<config, client, now, jpc, jclient, jfetches, conn,
               closing, crashed, nc>>

\* refreshKeyCache with the fetched key stored under the other role.
refreshKeyCache_OtherRole(key, cl, c, t, d, resp) ==
  LET r == IF key = VerifyPublicKey THEN getVerificationKey(cl, resp)
           ELSE getConsentKey(cl, resp)
      other == IF key = VerifyPublicKey THEN ConsentPrivateKey ELSE VerifyPublicKey
  IN
  IF r.err # Nil THEN [err |-> r.err, keyCache |-> c, key |-> <<>>]
  ELSE [err |-> Nil, keyCache |-> CacheSet(c, other, r.key[1], t, d), key |-> r.key]

\* refreshKeyCache without the return in the error branch: the nil key of the
\* failed fetch is stored.
refreshKeyCache_SetOnError(key, cl, c, t, d, resp) ==
  LET r == IF key = VerifyPublicKey THEN getVerificationKey(cl, resp)
           ELSE getConsentKey(cl, resp)
      nilKey == IF key = VerifyPublicKey THEN PublicKey(0) ELSE PrivateKey(0)
  IN
  IF r.err = Panic THEN [err |-> r.err, keyCache |-> c, key |-> <<>>]
  ELSE IF r.err # Nil
    THEN [err |-> r.err, keyCache |-> CacheSet(c, key, nilKey, t, d), key |-> <<>>]
  ELSE [err |-> Nil, keyCache |-> CacheSet(c, key, r.key[1], t, d), key |-> r.key]

\* IDP.refreshKeyCache(key) once the GET issued under cl has answered resp,
\* at time t: on an error nothing is written, otherwise the key is stored.
refreshKeyCache(key, cl, c, t, d, resp) ==
  IF key = VerifyPublicKey THEN
    LET v == getVerificationKey(cl, resp) IN
    IF v.err # Nil THEN [err |-> v.err, keyCache |-> c, key |-> <<>>]
    ELSE [err |-> Nil, keyCache |-> CacheSet(c, VerifyPublicKey, v.key[1], t, d),
          key |-> v.key]
  ELSE IF key = ConsentPrivateKey THEN
    LET k == getConsentKey(cl, resp) IN
    IF k.err # Nil THEN [err |-> k.err, keyCache |-> c, key |-> <<>>]
    ELSE [err |-> Nil, keyCache |-> CacheSet(c, ConsentPrivateKey, k.key[1], t, d),
          key |-> k.key]
  ELSE [err |-> Nil, keyCache |-> c, key |-> <<>>]

\* The callback of the first evicted role reaches idp.client.Get: a nil
\* client panics in the janitor goroutine, otherwise the GET is in flight.
RefreshStart ==
  /\ ~crashed
  /\ jpc = "idle" /\ evicted # <<>>
  /\ IF getKey(client, [t |-> "transportErr", keys |-> <<>>]).err = Panic
       THEN /\ crashed' = TRUE
            /\ UNCHANGED <<jpc, jclient, jfetches>>
            /\ last' = [op |-> "refreshKeyCache", err |-> Panic,
                        arg |-> <<Head(evicted).key, Head(evicted).value>>,
                        ret |-> <<>>, steps |-> <<>>]
       ELSE /\ jpc' = "fetching"
            /\ jclient' = client
            /\ jfetches' = jfetches + 1
            /\ crashed' = FALSE
            /\ last' = [op |-> "getKey", err |-> Nil,
                        arg |-> <<Head(evicted).key, Head(evicted).value>>,
                        ret |-> <<>>, steps |-> <<>>]
  /\ UNCHANGED <<config, client, keyCache, now, evicted, conn, closing, nc>>

\* The GET answers and the callback runs to its end.
RefreshFinish ==
  /\ ~crashed
  /\ jpc = "fetching"
  /\ \E resp \in Responses :
       LET res == refreshKeyCache(Head(evicted).key, jclient, keyCache, now,
                                  config.KeyCacheExpiration, resp)
       IN
       /\ keyCache' = res.keyCache
       /\ crashed' = (res.err = Panic)
       /\ jpc' = "idle"
       /\ jclient' = NoClient
       /\ evicted' = Tail(evicted)
       /\ jfetches' = 0
       /\ last' = [op |-> "refreshKeyCache", err |-> res.err,
                   arg |-> <<Head(evicted).key, Head(evicted).value>>, ret |-> res.key,
                   steps |-> [i \in 1..jfetches |-> "getKey"]]
  /\ UNCHANGED <<config, client, now, conn, closing, nc>>

(* ----------------------- the consent challenge ------------------------ *)
\* JSON values of a claim: absent, a number, a string, or an array of values.
Absent == [t |-> "absent", n |-> 0, s |-> "", a |-> <<>>]
Num(n) == [t |-> "number", n |-> n, s |-> "", a |-> <<>>]
Str(x) == [t |-> "string", n |-> 0, s |-> x, a |-> <<>>]
Arr(q) == [t |-> "array", n |-> 0, s |-> "", a |-> q]

ExpVals == 0..MaxExp
StrArr(q) == Arr([i \in DOMAIN q |-> Str(q[i])])

Claims(e, q) ==
  [exp |-> Num(e), aud |-> Str("app-1"), redir |-> Str("https://app.example/cb"),
   scp |-> StrArr(q)]

\* Claim sets of which one claim is missing or has the wrong type.
MalformedClaims ==
  LET good == Claims(MaxExp, <<"openid", "profile">>) IN
  {[good EXCEPT !.exp = Absent], [good EXCEPT !.aud = Num(1)],
   [good EXCEPT !.redir = Absent], [good EXCEPT !.scp = Str("openid")],
   [good EXCEPT !.scp = Arr(<<Str("openid"), Num(1)>>)]}

\* Signing algorithms a token may declare: the expected one, a symmetric one,
\* another asymmetric one, and one the JWT library does not know.
Algs == {"RS256", "HS256", "PS256", "XX"}
RegisteredAlgs == {"RS256", "HS256", "PS256"}
RSAAlgs == {"RS256"}

\* A token: the declared algorithm, the key pair that signed it, its claims.
Tokens ==
  {[alg |-> "RS256", kid |-> 1, claims |-> Claims(e, <<"openid", "profile">>)] :
     e \in ExpVals}
  \cup {[alg |-> "RS256", kid |-> MaxKey, claims |-> Claims(1, <<"openid", "profile">>)]}
  \cup {[alg |-> a, kid |-> 1, claims |-> Claims(e, <<"openid", "profile">>)] :
          a \in Algs \ RSAAlgs, e \in {1}}
  \cup {[alg |-> "RS256", kid |-> 1, claims |-> m] : m \in MalformedClaims}

Users == {"alice"}

\* The key function with the cache read before the method is looked at.
KeyFunc_ReadKeyFirst(tok, c, t) ==
  LET g == GetVerificationKey(c, t) IN
  IF g.err # Nil
    THEN [err |-> g.err, key |-> <<>>, steps |-> <<"keyFunc", "GetVerificationKey">>]
  ELSE IF tok.alg \notin {"RS256"}
    THEN [err |-> "Unexpected signing method", key |-> <<>>,
          steps |-> <<"keyFunc", "GetVerificationKey">>]
  ELSE [err |-> Nil, key |-> g.key, steps |-> <<"keyFunc", "GetVerificationKey">>]

\* The key function NewChallenge hands to jwt.Parse: a method that is not
\* *jwt.SigningMethodRSA is refused before the cache is read.
KeyFunc(tok, c, t) ==
  IF tok.alg \notin RSAAlgs
    THEN [err |-> "Unexpected signing method", key |-> <<>>, steps |-> <<"keyFunc">>]
    ELSE LET g == GetVerificationKey(c, t) IN
         [err |-> g.err, key |-> g.key, steps |-> <<"keyFunc", "GetVerificationKey">>]

\* MapClaims.Valid at time t: exp is compared in whole seconds, and an exp
\* that is absent, not a number or 0 passes.
ClaimsValid(claims, t) ==
  \/ claims.exp.t # "number"
  \/ claims.exp.n = 0
  \/ t \div TicksPerSec <= claims.exp.n

\* jwt.Parse up to the key function: the method lookup, then the key function,
\* whose cache read looks at the clock at time t.
jwtParseKey(tok, c, t) ==
  IF tok.alg \notin RegisteredAlgs
    THEN [err |-> "signing method (alg) is unavailable", key |-> <<>>, steps |-> <<>>]
    ELSE
      LET kf == KeyFunc(tok, c, t) IN
      IF kf.err # Nil
        THEN [err |-> "jwt.ValidationError: " \o kf.err, key |-> <<>>, steps |-> kf.steps]
        ELSE [err |-> Nil, key |-> kf.key, steps |-> kf.steps]

\* jwt.Parse after the key function returned key: the claims are validated
\* against the clock at time t, then the signature against the key. The token
\* is marked valid only when neither found an error.
jwtParseVerify(tok, key, t) ==
  LET expired == ~ClaimsValid(tok.claims, t)
      badsig == key[1].id # tok.kid
      steps == <<"Claims.Valid", "Verify">>
  IN
  IF expired /\ badsig
    THEN [err |-> "jwt.ValidationError: expired, signature invalid",
          valid |-> FALSE, steps |-> steps]
  ELSE IF expired
    THEN [err |-> "jwt.ValidationError: expired", valid |-> FALSE, steps |-> steps]
  ELSE IF badsig
    THEN [err |-> "jwt.ValidationError: signature invalid", valid |-> FALSE,
          steps |-> steps]
  ELSE [err |-> Nil, valid |-> TRUE, steps |-> steps]

\* IDP.getChallengeToken once the key function has returned: the error of
\* jwt.Parse, or "Empty token" for a token that parsed without error and is
\* not valid.
getChallengeToken(tok, key, t) ==
  LET p == jwtParseVerify(tok, key, t) IN
  IF p.err # Nil THEN [err |-> p.err, steps |-> p.steps]
  ELSE IF ~p.valid THEN [err |-> "Empty token", steps |-> p.steps]
  ELSE [err |-> Nil, steps |-> p.steps]

\* time.Unix(int64(exp), 0) in ticks.
UnixTime(sec) == sec * TicksPerSec

\* Expires.Before(time.Now())
Before(expires, t) == expires < t

\* The claim extraction with aud and redir taken for each other.
ExtractChallenge_SwapAudRedir(claims, user, t) ==
  IF claims.exp.t # "number" THEN [err |-> Panic, challenge |-> <<>>, steps |-> <<>>]
  ELSE IF claims.exp.n * TicksPerSec < t
    THEN [err |-> ErrorChallengeExpired, challenge |-> <<>>, steps |-> <<"exp">>]
  ELSE IF claims.aud.t # "string" \/ claims.redir.t # "string" \/ claims.scp.t # "array"
    THEN [err |-> Panic, challenge |-> <<>>, steps |-> <<"exp">>]
  ELSE IF \E i \in DOMAIN claims.scp.a : claims.scp.a[i].t # "string"
    THEN [err |-> Panic, challenge |-> <<>>, steps |-> <<"exp">>]
  ELSE [err |-> Nil,
        challenge |-> <<[Client |-> claims.redir.s, Redirect |-> claims.aud.s,
                         User |-> user,
                         Scopes |-> [i \in DOMAIN claims.scp.a |-> claims.scp.a[i].s],
                         Expires |-> claims.exp.n * TicksPerSec]>>,
        steps |-> <<"exp">>]

\* The body of NewChallenge after the token is verified: each type assertion
\* on a claim of another shape panics.
ExtractChallenge(claims, user, t) ==
  IF claims.exp.t # "number" THEN [err |-> Panic, challenge |-> <<>>, steps |-> <<>>]
  ELSE IF Before(UnixTime(claims.exp.n), t)
    THEN [err |-> ErrorChallengeExpired, challenge |-> <<>>, steps |-> <<"exp">>]
  ELSE IF claims.aud.t # "string" \/ claims.redir.t # "string" \/ claims.scp.t # "array"
    THEN [err |-> Panic, challenge |-> <<>>, steps |-> <<"exp">>]
  ELSE IF \E i \in DOMAIN claims.scp.a : claims.scp.a[i].t # "string"
    THEN [err |-> Panic, challenge |-> <<>>, steps |-> <<"exp">>]
  ELSE [err |-> Nil,
        challenge |-> <<[Client |-> claims.aud.s, Redirect |-> claims.redir.s,
                         User |-> user,
                         Scopes |-> [i \in DOMAIN claims.scp.a |-> claims.scp.a[i].s],
                         Expires |-> UnixTime(claims.exp.n)]>>,
        steps |-> <<"exp">>]

\* NewChallenge with the token parsed before the empty form value is refused.
NewChallengeStart_ParseFirst(form, c, t) ==
  IF form = <<>>
    THEN [err |-> ErrorBadRequest, key |-> <<>>,
          steps |-> <<"keyFunc", "GetVerificationKey">>]
  ELSE jwtParseKey(form[1], c, t)

\* IDP.NewChallenge(r, user) up to the return of the key function, at time t;
\* form is r.FormValue("challenge"): <<>> for the empty string, <<token>>
\* otherwise.
NewChallengeStart(form, c, t) ==
  IF form = <<>> THEN [err |-> ErrorBadRequest, key |-> <<>>, steps |-> <<>>]
  ELSE jwtParseKey(form[1], c, t)

\* NewChallenge is called (idp.go:234-241) and jwt.Parse runs up to the key
\* function, whose cache.Get reads the cache and the clock (idp.go:191, 220).
NewChallengeKeyFunc ==
  /\ ~crashed
  /\ nc.pc = "idle"
  /\ \E form \in {<<>>} \cup {<<tok>> : tok \in Tokens}, user \in Users :
       LET res == NewChallengeStart(form, keyCache, now) IN
       /\ nc' = IF res.err = Nil
                  THEN [pc |-> "keyRead", form |-> form, user |-> user,
                        key |-> res.key, steps |-> res.steps]
                  ELSE NcIdle
       /\ last' = [op |-> IF res.err = Nil THEN "NewChallenge:keyFunc" ELSE "NewChallenge",
                   err |-> res.err, arg |-> <<form, user>>, ret |-> <<>>,
                   steps |-> res.steps]
  /\ UNCHANGED <<config, client, keyCache, now, evicted, jpc, jclient, jfetches, conn,
               closing, crashed>>

\* jwt.Parse goes on: Claims.Valid reads the clock, the signature is checked
\* against the key read before, and getChallengeToken returns (idp.go:194-202).
NewChallengeValidate ==
  /\ ~crashed
  /\ nc.pc = "keyRead"
  /\ LET p == getChallengeToken(nc.form[1], nc.key, now) IN
     /\ nc' = IF p.err = Nil
                THEN [nc EXCEPT !.pc = "verified", !.steps = nc.steps \o p.steps]
                ELSE NcIdle
     /\ last' = [op |-> IF p.err = Nil THEN "NewChallenge:Parse" ELSE "NewChallenge",
                 err |-> p.err, arg |-> <<nc.form, nc.user>>, ret |-> <<>>,
                 steps |-> nc.steps \o p.steps]
  /\ UNCHANGED <<config, client, keyCache, now, evicted, jpc, jclient, jfetches, conn,
               closing, crashed>>

\* The claims are read and exp is compared with time.Now() (idp.go:246-269).
\* A panic unwinds into the caller, which may recover from it or not.
NewChallengeExtract ==
  /\ ~crashed
  /\ nc.pc = "verified"
  /\ LET x == ExtractChallenge(nc.form[1].claims, nc.user, now) IN
     /\ nc' = NcIdle
     /\ IF x.err = Panic THEN crashed' \in BOOLEAN ELSE crashed' = FALSE
     /\ last' = [op |-> "NewChallenge", err |-> x.err, arg |-> <<nc.form, nc.user>>,
                 ret |-> x.challenge, steps |-> nc.steps \o x.steps]
  /\ UNCHANGED <<config, client, keyCache, now, evicted, jpc, jclient, jfetches, conn,
               closing>>

\* IDP.NewChallenge, one call at a time, from clock read to clock read.
NewChallenge == NewChallengeKeyFunc \/ NewChallengeValidate \/ NewChallengeExtract

\* What the session store may hold for the request: a store error, nothing,
\* a value of another type, or a Challenge stored by an earlier request.
StoredChallenges ==
  {[type |-> "*Challenge", Client |-> "app-1", Redirect |-> "https://app.example/cb",
    User |-> "alice", Scopes |-> <<"openid", "profile">>, Expires |-> UnixTime(e)] :
     e \in ExpVals}

Sessions ==
  {[err |-> "securecookie error", values |-> <<>>], [err |-> Nil, values |-> <<>>],
   [err |-> Nil, values |-> <<[type |-> "string"]>>]}
  \cup {[err |-> Nil, values |-> <<ch>>] : ch \in StoredChallenges}

\* GetChallenge without the expiry check on the stored Challenge.
GetChallengeResult_NoExpiry(session, t) ==
  IF session.err # Nil THEN [err |-> session.err, challenge |-> <<>>]
  ELSE IF session.values = <<>> \/ session.values[1].type # "*Challenge"
    THEN [err |-> ErrorBadChallengeCookie, challenge |-> <<>>]
  ELSE [err |-> Nil, challenge |-> session.values]

\* IDP.GetChallenge(r) at time t, with the session the store returns for r.
GetChallengeResult(session, t) ==
  IF session.err # Nil THEN [err |-> session.err, challenge |-> <<>>]
  ELSE IF session.values = <<>> \/ session.values[1].type # "*Challenge"
    THEN [err |-> ErrorBadChallengeCookie, challenge |-> <<>>]
  ELSE IF Before(session.values[1].Expires, t)
    THEN [err |-> ErrorChallengeExpired, challenge |-> <<>>]
  ELSE [err |-> Nil, challenge |-> session.values]

GetChallenge ==
  /\ ~crashed
  /\ \E session \in Sessions :
       LET res == GetChallengeResult(session, now) IN
       last' = [op |-> "GetChallenge", err |-> res.err, arg |-> <<session>>,
                ret |-> res.challenge, steps |-> <<>>]
  /\ UNCHANGED <<config, client, keyCache, now, evicted, jpc, jclient, jfetches, conn,
               closing, crashed, nc>>

\* A caller reads one of the two keys.
ReadVerificationKey ==
  /\ ~crashed
  /\ LET g == GetVerificationKey(keyCache, now) IN
     last' = [op |-> "GetVerificationKey", err |-> g.err, arg |-> <<>>, ret |-> g.key,
              steps |-> <<>>]
  /\ UNCHANGED <<config, client, keyCache, now, evicted, jpc, jclient, jfetches, conn,
               closing, crashed, nc>>

ReadConsentKey ==
  /\ ~crashed
  /\ LET g == GetConsentKey(keyCache, now) IN
     last' = [op |-> "GetConsentKey", err |-> g.err, arg |-> <<>>, ret |-> g.key,
              steps |-> <<>>]
  /\ UNCHANGED <<config, client, keyCache, now, evicted, jpc, jclient, jfetches, conn,
               closing, crashed, nc>>

Next ==
  \/ Tick \/ Connect \/ Close \/ DeleteExpired \/ RefreshStart \/ RefreshFinish
  \/ ReadVerificationKey \/ ReadConsentKey

Spec == Init /\ [][Next]_vars

\* The facade left to itself after Connect: a cache with a positive expiration
\* and a running janitor, Connect called until a login has succeeded, and no
\* Close. The janitor goroutine sweeps on every tick of its timer and runs
\* each callback it has queued to its end, hence the weak fairness of its
\* three steps.
InitHeal ==
  /\ Init
  /\ config.KeyCacheExpiration > 0
  /\ config.KeyCacheCleanupInterval > 0

\* A call of Connect is started only while no login has succeeded; a call in
\* progress runs on statement by statement. The condition is the caller's
\* discipline in this scenario, not a test in the code.
ConnectOnce == (conn.pc = "idle" => client = NoClient) /\ Connect

NextHeal == Tick \/ ConnectOnce \/ DeleteExpired \/ RefreshStart \/ RefreshFinish

HealSpec ==
  /\ InitHeal
  /\ [][NextHeal]_vars
  /\ WF_vars(DeleteExpired)
  /\ WF_vars(RefreshStart)
  /\ WF_vars(RefreshFinish)

\* The challenge operations, on a facade whose cached keys expire and whose
\* cache runs no janitor.
InitChallenge ==
  /\ Init
  /\ config.KeyCacheExpiration > 0
  /\ config.KeyCacheCleanupInterval = 0

NextChallenge == Tick \/ Connect \/ Close \/ NewChallenge

ChallengeSpec == InitChallenge /\ [][NextChallenge]_vars

\* The same facade with requests that read their Challenge back from the
\* session: GetChallenge reads the session store and the clock and shares
\* nothing else with the other operations.
NextSession == Tick \/ Connect \/ Close \/ GetChallenge

SessionSpec == InitChallenge /\ [][NextSession]_vars
(* ============================ the claims =============================== *)
\* Helpers over the operation that acted last.
IsNewChallenge == last.op = "NewChallenge"
HasToken == IsNewChallenge /\ last.arg[1] # <<>>
Tok == last.arg[1][1]
WellFormed(claims) ==
  /\ claims.exp.t = "number"
  /\ claims.aud.t = "string"
  /\ claims.redir.t = "string"
  /\ claims.scp.t = "array"
  /\ \A i \in DOMAIN claims.scp.a : claims.scp.a[i].t = "string"
\* The token declares the expected RSA method and was signed by the key pair
\* whose public half the cache holds now.
SignedWithActiveKey(tok) ==
  /\ tok.alg \in RSAAlgs
  /\ GetVerificationKey(keyCache, now).err = Nil
  /\ GetVerificationKey(keyCache, now).key[1].id = tok.kid
Found(r) == CacheGet(keyCache, r, now) # <<>>
\* The step is one of the NewChallenge call in progress, or starts a call.
NcStep == nc' # nc \/ (nc.pc = "idle" /\ last'.op = "NewChallenge")
\* The token of the call in progress was signed by the key the call has read.
NcSigned == nc.pc # "idle" /\ nc.key[1].id = nc.form[1].kid
\* exp of the token of the call in progress, as a time in ticks.
NcExp == UnixTime(nc.form[1].claims.exp.n)

\* C1: a token signed with the key that is active when NewChallenge reads the
\* cache, whose exp is strictly in the future at each look at the clock and
\* whose aud, redir and scp are well-formed, takes NewChallenge through its
\* three steps to the return of no error and of the Challenge whose Client,
\* Redirect, Scopes (same order), User and Expires are aud, redir, scp, the
\* caller's user and exp.
C1_NewChallengeFromValidToken ==
  /\ [][\A tok \in Tokens :
          (/\ nc.pc = "idle"
           /\ NcStep
           /\ last'.arg[1] = <<tok>>
           /\ SignedWithActiveKey(tok))
          => /\ nc'.pc = "keyRead"
             /\ nc'.form = <<tok>>
             /\ nc'.user = last'.arg[2]
             /\ nc'.key = <<PublicKey(tok.kid)>>]_vars
  /\ [][(/\ nc.pc = "keyRead"
         /\ NcStep
         /\ NcSigned
         /\ WellFormed(nc.form[1].claims)
         /\ NcExp > now)
        => /\ nc'.pc = "verified"
           /\ nc'.form = nc.form
           /\ nc'.user = nc.user]_vars
  /\ [][(/\ nc.pc = "verified"
         /\ NcStep
         /\ WellFormed(nc.form[1].claims)
         /\ NcExp > now)
        => LET claims == nc.form[1].claims IN
           /\ last'.op = "NewChallenge"
           /\ last'.err = Nil
           /\ last'.arg = <<nc.form, nc.user>>
           /\ last'.ret = <<[Client |-> claims.aud.s,
                             Redirect |-> claims.redir.s,
                             Scopes |-> [i \in DOMAIN claims.scp.a |-> claims.scp.a[i].s],
                             User |-> nc.user,
                             Expires |-> NcExp]>>]_vars

\* NewChallenge has returned a Challenge for a token whose exp is still in the
\* future, and while the call was running a Close has flushed the key it
\* verified the token with.
C1_Witness ==
  /\ HasToken
  /\ WellFormed(Tok.claims)
  /\ Tok.claims.exp.n * TicksPerSec > now
  /\ last.err = Nil
  /\ last.ret # <<>>
  /\ last.ret[1].Scopes = <<"openid", "profile">>
  /\ last.steps = <<"keyFunc", "GetVerificationKey", "Claims.Valid", "Verify", "exp">>
  /\ ~Found(VerifyPublicKey)
  /\ now > StartTime

\* C2 (as claimed): every Challenge NewChallenge or GetChallenge returns has
\* Expires strictly after the current time, and a Challenge whose Expires is
\* not strictly after the current time (equal included) is not returned:
\* the operation fails with ChallengeExpired.
C2_ExpiresStrictlyInFuture ==
  /\ (last.op \in {"NewChallenge", "GetChallenge"} /\ last.ret # <<>>)
       => last.ret[1].Expires > now
  /\ (/\ last.op = "GetChallenge"
      /\ last.arg[1].err = Nil
      /\ last.arg[1].values # <<>>
      /\ last.arg[1].values[1].type = "*Challenge"
      /\ last.arg[1].values[1].Expires <= now)
       => (last.ret = <<>> /\ last.err = ErrorChallengeExpired)
  /\ (/\ HasToken
      /\ Len(last.steps) > 0
      /\ last.steps[Len(last.steps)] = "exp"
      /\ WellFormed(Tok.claims)
      /\ Tok.claims.exp.n * TicksPerSec <= now)
       => (last.ret = <<>> /\ last.err = ErrorChallengeExpired)

\* C3 (as claimed): a token whose exp is in the past makes NewChallenge return
\* no Challenge and ChallengeExpired, whether its signature is valid or not.
\* Stated for the returns of a call that has read the key the token was signed
\* with, so that nothing but the expiry is in play.
C3_ExpiredTokenGivesChallengeExpired ==
  [][(/\ nc.pc \in {"keyRead", "verified"}
      /\ NcStep
      /\ last'.op = "NewChallenge"
      /\ NcSigned
      /\ WellFormed(nc.form[1].claims)
      /\ NcExp < now)
     => (last'.ret = <<>> /\ last'.err = ErrorChallengeExpired)]_vars

\* C4: a token whose declared algorithm is not the expected RSA method makes
\* NewChallenge fail with a signing-method error and no Challenge, before the
\* verification key is read from the cache and before any expiry check.
C4_WrongMethodRejectedFirst ==
  (HasToken /\ Tok.alg \notin RSAAlgs)
  => /\ last.err \in {"jwt.ValidationError: Unexpected signing method",
                      "signing method (alg) is unavailable"}
     /\ last.ret = <<>>
     /\ \A i \in DOMAIN last.steps :
          last.steps[i] \notin {"GetVerificationKey", "Claims.Valid", "Verify", "exp"}

C4_Witness ==
  /\ HasToken
  /\ Tok.alg = "HS256"
  /\ GetVerificationKey(keyCache, now).err = Nil
  /\ GetVerificationKey(keyCache, now).key[1].id = Tok.kid
  /\ Tok.claims.exp.n * TicksPerSec < now
  /\ last.err = "jwt.ValidationError: Unexpected signing method"

\* C5: NewChallenge on a request with no challenge form value returns
\* BadRequest and no Challenge without reading the key cache or the network,
\* and leaves the cache and the client as they were.
C5_EmptyFormIsBadRequest ==
  [][(last'.op = "NewChallenge" /\ last'.arg[1] = <<>>)
       => /\ last'.err = ErrorBadRequest
          /\ last'.ret = <<>>
          /\ last'.steps = <<>>
          /\ keyCache' = keyCache
          /\ client' = client]_vars

C5_Witness ==
  /\ IsNewChallenge
  /\ last.arg[1] = <<>>
  /\ last.err = ErrorBadRequest
  /\ Found(VerifyPublicKey)
  /\ client # NoClient

\* C6: Set(role, k, ttl) followed at once by Get(role) finds k; and once the
\* entry has expired and the eviction handler has run for the role with a
\* fetch that returned k2, Get(role) finds k2.
C6_CacheRoundTripAndRefresh ==
  /\ \A r \in Roles, i \in KeyIds :
       CacheGet(CacheSet(keyCache, r, PublicKey(i), now, config.KeyCacheExpiration),
                r, now) = <<PublicKey(i)>>
  /\ (last.op = "refreshKeyCache" /\ last.err = Nil)
       => /\ last.ret # <<>>
          /\ CacheGet(keyCache, last.arg[1], now) = last.ret

C6_Witness ==
  /\ last.op = "refreshKeyCache"
  /\ last.err = Nil
  /\ last.ret # <<>>
  /\ last.ret[1].id # last.arg[2].id
  /\ CacheGet(keyCache, last.arg[1], now) = last.ret

\* C7: when the fetch of an eviction-triggered refresh returns an error, the
\* handler has made that one fetch, writes nothing to the cache and returns;
\* and a role that is absent becomes present only by a successful refresh or
\* by one of the two Sets of a Connect.
C7_FailedRefreshWritesNothing ==
  /\ [][(last'.op = "refreshKeyCache" /\ last'.err \notin {Nil, Panic})
          => /\ keyCache' = keyCache
             /\ Len(last'.steps) = 1
             /\ last'.ret = <<>>
             /\ evicted' = Tail(evicted)
             /\ jpc' = "idle"]_vars
  /\ [][\A r \in Roles :
          (CacheGet(keyCache, r, now) = <<>> /\ CacheGet(keyCache', r, now') # <<>>)
            => (last'.op \in {"Connect:SetVerify", "Connect:SetConsent", "refreshKeyCache"}
                  /\ last'.err = Nil)]_vars

C7_Witness ==
  /\ last.op = "refreshKeyCache"
  /\ last.err = "transport error"
  /\ ~Found(last.arg[1])
  /\ client # NoClient

C9_FailedLoginChangesNothing ==
  [][(last'.op = "Connect" /\ last'.steps = <<"login">>)
       => /\ last'.err = "oauth2 error"
          /\ conn'.pc = "idle"
          /\ client' = client
          /\ keyCache' = keyCache]_vars

C9_Witness ==
  /\ last.op = "Connect"
  /\ last.err = "oauth2 error"
  /\ client # NoClient
  /\ Found(VerifyPublicKey) /\ Found(ConsentPrivateKey)

FetchFailed ==
  /\ last.op = "Connect"
  /\ Len(last.steps) \in {2, 3}
  /\ last.err \notin {Nil, Panic}

\* C10 (as claimed): after a Connect in which a key-priming fetch returned an
\* error, the cache holds at most one of the two roles.
C10_FailedPrimingLeavesNotReady ==
  FetchFailed => ~(Found(VerifyPublicKey) /\ Found(ConsentPrivateKey))

\* C10 (amended): a Connect in which a key-priming fetch returns an error
\* returns that error without a Set and without touching the client again;
\* so after a first Connect both roles are absent, and after a re-Connect the
\* cache holds what it held before.
C10_FailedPrimingWritesNothing ==
  [][(last'.op = "Connect" /\ Len(last'.steps) \in {2, 3} /\ last'.err # Panic)
       => /\ last'.err \in {"transport error", "decode error"}
          /\ conn.pc \in {"verifyGet", "consentGet"}
          /\ conn'.pc = "idle"
          /\ keyCache' = keyCache
          /\ client' = client]_vars

C10_Witness ==
  /\ FetchFailed
  /\ Len(last.steps) = 3
  /\ client # NoClient
  /\ Found(VerifyPublicKey) /\ Found(ConsentPrivateKey)

\* C11: Close completes without error, and when it returns the client is nil
\* and the cache holds no entry for either role, so GetVerificationKey and
\* GetConsentKey both return NoKey.
C11_CloseClearsClientAndCache ==
  last.op = "Close"
  => /\ last.err = Nil
     /\ client = NoClient
     /\ \A r \in Roles : keyCache[r] = <<>>
     /\ GetVerificationKey(keyCache, now).err = ErrorNoKey
     /\ GetConsentKey(keyCache, now).err = ErrorNoKey

IsStoredChallenge(session) ==
  session.values # <<>> /\ session.values[1].type = "*Challenge"

\* C12: GetChallenge returns BadChallengeCookie when the session holds no
\* value or a value that is not a Challenge, ChallengeExpired when the stored
\* Challenge is past its expiry, and the stored Challenge with no error only
\* when it is present and not past its expiry; the check is made on every read.
C12_GetChallengeOutcomes ==
  (last.op = "GetChallenge" /\ last.arg[1].err = Nil)
  => LET session == last.arg[1] IN
     /\ ~IsStoredChallenge(session)
          => (last.err = ErrorBadChallengeCookie /\ last.ret = <<>>)
     /\ (IsStoredChallenge(session) /\ session.values[1].Expires < now)
          => (last.err = ErrorChallengeExpired /\ last.ret = <<>>)
     /\ (IsStoredChallenge(session) /\ ~(session.values[1].Expires < now))
          => (last.err = Nil /\ last.ret = session.values)
     /\ last.ret # <<>>
          => (IsStoredChallenge(session) /\ ~(session.values[1].Expires < now))

\* A stored Challenge that was still good when the clock started is refused
\* on a later read.
C12_Witness ==
  /\ last.op = "GetChallenge"
  /\ last.arg[1].err = Nil
  /\ IsStoredChallenge(last.arg[1])
  /\ last.arg[1].values[1].Expires >= StartTime
  /\ last.arg[1].values[1].Expires < now
  /\ last.err = ErrorChallengeExpired
\* C13: in every reachable state the cache holds at most one entry per role,
\* a present VerifyPublic entry is an RSA public key and a present
\* ConsentPrivate entry is an RSA private key; GetVerificationKey and
\* GetConsentKey return the key or NoKey, never BadKey.
C13_OneTypedEntryPerRole ==
  /\ \A r \in Roles : Len(keyCache[r]) <= 1
  /\ keyCache[VerifyPublicKey] # <<>>
       => keyCache[VerifyPublicKey][1].Object.type = "rsa.PublicKey"
  /\ keyCache[ConsentPrivateKey] # <<>>
       => keyCache[ConsentPrivateKey][1].Object.type = "rsa.PrivateKey"
  /\ GetVerificationKey(keyCache, now).err \in {Nil, ErrorNoKey}
  /\ GetConsentKey(keyCache, now).err \in {Nil, ErrorNoKey}
  /\ last.op \in {"GetVerificationKey", "GetConsentKey"}
       => \/ last.err = ErrorNoKey /\ last.ret = <<>>
          \/ last.err = Nil /\ last.ret # <<>>
  /\ (last.op = "GetVerificationKey" /\ last.err = Nil)
       => last.ret[1].type = "rsa.PublicKey"
  /\ (last.op = "GetConsentKey" /\ last.err = Nil)
       => last.ret[1].type = "rsa.PrivateKey"

\* After a Connect, an expiry and a refresh of the verification key only, a
\* reader gets the refreshed public key while the consent key is absent.
C13_Witness ==
  /\ last.op = "GetVerificationKey"
  /\ last.err = Nil
  /\ last.ret = <<PublicKey(MaxKey)>>
  /\ keyCache[VerifyPublicKey][1].Expiration > StartTime + TTL
  /\ ~Found(ConsentPrivateKey)
FailedResponse(resp) == resp.t # "keys" \/ resp.keys = <<>>

\* C14: with a client in place, a transport failure, a decode failure and a
\* key-set document with no keys each make getKey, getVerificationKey and
\* getConsentKey return no key and an error value, never a crash.
C14_FetchFailuresAreErrors ==
  (client # NoClient /\ ~crashed)
  => \A resp \in Responses :
       FailedResponse(resp)
       => /\ getKey(client, resp).err \notin {Nil, Panic}
          /\ getKey(client, resp).jwk = <<>>
          /\ getVerificationKey(client, resp).err \notin {Nil, Panic}
          /\ getVerificationKey(client, resp).key = <<>>
          /\ getConsentKey(client, resp).err \notin {Nil, Panic}
          /\ getConsentKey(client, resp).key = <<>>
\* C15: NewChallenge on a verified token in which exp, aud, redir or scp is
\* missing or of the wrong type ends with an error value and no Challenge; it
\* does not crash the caller.
C15_MalformedClaimsAreErrors ==
  [][(/\ nc.pc = "verified"
      /\ NcStep
      /\ ~WellFormed(nc.form[1].claims))
     => /\ last'.op = "NewChallenge"
        /\ last'.err \notin {Nil, Panic}
        /\ last'.ret = <<>>
        /\ crashed' = crashed]_vars
\* C16: when the cache has no live VerifyPublic entry at the moment
\* NewChallenge reads it, the call on a non-empty token of the expected RSA
\* method returns at once with the NoKey error of GetVerificationKey carried
\* by the parser's error and with no Challenge, and changes neither the cache
\* nor the client nor starts a fetch.
C16_AbsentKeyPropagatesNoKey ==
  [][(/\ nc.pc = "idle"
      /\ NcStep
      /\ last'.arg[1] # <<>>
      /\ last'.arg[1][1].alg \in RSAAlgs
      /\ CacheGet(keyCache, VerifyPublicKey, now) = <<>>)
       => /\ last'.op = "NewChallenge"
          /\ last'.err = "jwt.ValidationError: " \o ErrorNoKey
          /\ last'.ret = <<>>
          /\ last'.steps = <<"keyFunc", "GetVerificationKey">>
          /\ nc' = NcIdle
          /\ keyCache' = keyCache
          /\ client' = client
          /\ jpc' = jpc /\ jfetches' = jfetches /\ evicted' = evicted]_vars

\* The entry is still stored but has expired, a client is connected, and the
\* token was signed by the very key pair whose public key has expired.
C16_Witness ==
  /\ HasToken
  /\ Tok.alg \in RSAAlgs
  /\ client # NoClient
  /\ Expired(keyCache, VerifyPublicKey, now)
  /\ keyCache[VerifyPublicKey][1].Object.id = Tok.kid
  /\ WellFormed(Tok.claims)
  /\ ClaimsValid(Tok.claims, now)
  /\ last.err = "jwt.ValidationError: " \o ErrorNoKey
  /\ last.ret = <<>>
\* C17 (as stated): while the eviction refresh of a role is in progress, a
\* GetVerificationKey / GetConsentKey call for that role reports NoKey.
C17_ReadersSeeAbsentDuringRefresh ==
  /\ (jpc = "fetching" /\ Head(evicted).key = VerifyPublicKey
         /\ last.op = "GetVerificationKey")
       => last.err = ErrorNoKey
  /\ (jpc = "fetching" /\ Head(evicted).key = ConsentPrivateKey
         /\ last.op = "GetConsentKey")
       => last.err = ErrorNoKey

PendingRefresh(r, ev) == \E i \in DOMAIN ev : ev[i].key = r

\* C17 (amended): a role handed to the eviction callback and not yet
\* refreshed is absent for readers, who are never held up by the fetch,
\* unless a Set of a Connect has stored it since; the sweep itself never
\* leaves the expired key readable, and the key of the refresh is not
\* readable before the refresh has stored it.
C17_AbsentUntilRefreshOrConnect ==
  /\ [][\A r \in Roles :
          (PendingRefresh(r, evicted') /\ CacheGet(keyCache', r, now') # <<>>)
          => \/ /\ PendingRefresh(r, evicted)
                /\ CacheGet(keyCache, r, now) = CacheGet(keyCache', r, now')
             \/ /\ last'.op = "Connect:SetVerify" /\ r = VerifyPublicKey
                /\ CacheGet(keyCache', r, now') = <<last'.ret[1]>>
             \/ /\ last'.op = "Connect:SetConsent" /\ r = ConsentPrivateKey
                /\ CacheGet(keyCache', r, now') = <<last'.ret[1]>>]_vars
  /\ []((jpc = "fetching" /\ ~crashed)
          => (ENABLED ReadVerificationKey /\ ENABLED ReadConsentKey))

\* A reader asks for the verification key while its refresh is being fetched.
C17_Witness ==
  /\ jpc = "fetching"
  /\ Head(evicted).key = VerifyPublicKey
  /\ last.op = "GetVerificationKey"
  /\ last.err = ErrorNoKey
  /\ last.ret = <<>>
RefreshReachedFetch ==
  \/ last.op = "getKey"
  \/ last.op = "refreshKeyCache" /\ last.err = Panic /\ last.steps = <<>>

\* C18: whenever the eviction callback reaches the GET of getKey, the facade
\* holds a client: no refresh runs its fetch after Close has cleared it.
C18_FetchOnlyWithClient ==
  RefreshReachedFetch => client # NoClient
\* C19: once Close has returned, with the client cleared and the cache
\* flushed, and while no Connect call is running, both roles stay absent; a
\* refresh that was in flight when Close ran inserts nothing.
C19_AbsentAfterCloseUntilConnect ==
  [][(/\ client = NoClient
      /\ ~closing
      /\ conn.pc = "idle"
      /\ \A r \in Roles : CacheGet(keyCache, r, now) = <<>>)
       => \A r \in Roles : CacheGet(keyCache', r, now') = <<>>]_vars

RefreshFailedStep == last'.op = "refreshKeyCache" /\ last'.err # Nil

\* C20: after a successful Connect and with no Close, if from some point on
\* no refresh fails, every role that is absent is eventually present again
\* (or the process has crashed), with no further Connect.
C20_SelfHealAfterExpiry ==
  (<>[][~RefreshFailedStep]_vars)
  => \A r \in Roles :
       []((last.op = "Connect" /\ last.err = Nil)
            => [](~Found(r) => <>(Found(r) \/ crashed)))
====
